---- MODULE Spec2Model ----
(***************************************************************************)
(* Model of avaliacao.py: a Streamlit form that stores qualitative grades  *)
(* (0-10) in the "Notas" worksheet of a shared Google spreadsheet, with    *)
(* one in-memory grade table per browser session, and two reports of       *)
(* per-student averages.                                                   *)
(*                                                                         *)
(* Representation.                                                         *)
(*  - Text whose order matters (student names, class names) is a sequence  *)
(*    of Unicode code points; Python compares str by code point.           *)
(*  - The text of a grade cell (worksheet cell, editor cell) is a sequence *)
(*    of one-character strings; None is the editor's empty cell.           *)
(*  - A parsed grade is a number of tenths (8.5 is 85). A float column     *)
(*    value is <<v>>, and NaN (pandas' missing value) is << >>.            *)
(*  - A timestamp is a natural number; datetime.now().isoformat() strings  *)
(*    of one format are ordered as the instants they denote.               *)
(*  - A term is its position in the list of the three terms.               *)
(***************************************************************************)
EXTENDS Integers, Sequences, FiniteSets, TLC

\* ---------------------------------------------------------------- bounds
\* browser sessions sharing the worksheet
NumSessions == 2
\* form runs (a submit or a delete) in one behaviour: each one takes a tick
\* of the clock
MaxRuns == 2
\* rows of the worksheet the report specification starts from
MaxSheetRows == 3

\* of trimestres = ["1º Trimestre", "2º Trimestre", "3º Trimestre"], the
\* term the forms select and the terms the reports select
FormTrimestres == {1}
ReportTrimestres == {1, 2}

\* ------------------------------------------------------- sequence helpers
RowSet(df) == {df[i] : i \in DOMAIN df}

RECURSIVE Flatten(_)
Flatten(ss) == IF ss = << >> THEN << >> ELSE Head(ss) \o Flatten(Tail(ss))

RECURSIVE StrLess(_, _)
\* Python's str < str: lexicographic by code point, a proper prefix first
StrLess(a, b) ==
    IF b = << >> THEN FALSE
    ELSE IF a = << >> THEN TRUE
    ELSE IF Head(a) # Head(b) THEN Head(a) < Head(b)
    ELSE StrLess(Tail(a), Tail(b))

\* ------------------------------------------------- text of a grade cell
None == <<"None">>
Digits == <<"0", "1", "2", "3", "4", "5", "6", "7", "8", "9">>
IsDigit(c) == \E i \in DOMAIN Digits : Digits[i] = c
DigitVal(c) == (CHOOSE i \in DOMAIN Digits : Digits[i] = c) - 1

\* str.replace(',', '.'): every comma becomes a point
ReplaceComma(txt) == [i \in DOMAIN txt |-> IF txt[i] = "," THEN "." ELSE txt[i]]

RECURSIVE DigitsVal(_)
DigitsVal(ds) ==
    IF ds = << >> THEN 0 ELSE 10 * DigitsVal(SubSeq(ds, 1, Len(ds) - 1)) + DigitVal(ds[Len(ds)])

AllDigits(ds) == \A i \in DOMAIN ds : IsDigit(ds[i])

\* the decimal part of Python's float grammar, without sign: digits, at most
\* one point, at least one digit. The value is kept in tenths, so the model
\* feeds it texts with at most one fractional digit.
ParseUnsigned(t) ==
    LET points == {i \in DOMAIN t : t[i] = "."}
    IN  IF points = {}
        THEN [ok |-> t # << >> /\ AllDigits(t), nan |-> FALSE,
              val |-> IF AllDigits(t) THEN 10 * DigitsVal(t) ELSE 0]
        ELSE LET p  == CHOOSE i \in points : TRUE
                 ip == SubSeq(t, 1, p - 1)
                 fp == SubSeq(t, p + 1, Len(t))
                 good == Cardinality(points) = 1 /\ AllDigits(ip) /\ AllDigits(fp)
                         /\ Len(ip) + Len(fp) >= 1
             IN  [ok |-> good, nan |-> FALSE,
                  val |-> IF good
                          THEN 10 * DigitsVal(ip) + (IF fp = << >> THEN 0 ELSE DigitVal(fp[1]))
                          ELSE 0]

\* float(text): an optional sign, then "nan" or a decimal number; anything
\* else raises ValueError (ok = FALSE)
ParseFloat(t) ==
    LET signed == t # << >> /\ t[1] \in {"-", "+"}
        body   == IF signed THEN Tail(t) ELSE t
        u      == ParseUnsigned(body)
    IN  IF body = <<"n", "a", "n">> THEN [ok |-> TRUE, nan |-> TRUE, val |-> 0]
        ELSE IF signed /\ t[1] = "-" THEN [u EXCEPT !.val = 0 - u.val]
        ELSE u

RECURSIVE NatText(_)
NatText(n) == IF n < 10 THEN <<Digits[n + 1]>> ELSE NatText(n \div 10) \o <<Digits[(n % 10) + 1]>>

\* the text a worksheet shows for a float: 8.5 -> "8.5", 7.0 -> "7"
FloatText(v) ==
    LET a == IF v < 0 THEN 0 - v ELSE v
        s == IF v < 0 THEN <<"-">> ELSE << >>
    IN  s \o NatText(a \div 10) \o (IF a % 10 = 0 THEN << >> ELSE <<".", Digits[(a % 10) + 1]>>)

NaN == << >>
IsNaN(x) == x = << >>

\* str(x) of a float column value: 8.5 -> "8.5", 7.0 -> "7.0", NaN -> "nan"
PyStr(x) ==
    IF IsNaN(x) THEN <<"n", "a", "n">>
    ELSE LET v == x[1]
             a == IF v < 0 THEN 0 - v ELSE v
         IN  (IF v < 0 THEN <<"-">> ELSE << >>) \o NatText(a \div 10)
             \o <<".", Digits[(a % 10) + 1]>>

\* ------------------------------------------------------------ names
\* unicodedata.normalize('NFKD', c) for the characters of the model: a
\* precomposed accented letter becomes its base letter and a combining mark
Decompose(c) ==
    CASE c = 201 -> <<69, 769>>      \* É = E + combining acute accent
      [] c = 193 -> <<65, 769>>      \* Á = A + combining acute accent
      [] OTHER   -> <<c>>

\* unicodedata.combining(c) # 0: the combining diacritical marks
Combining(c) == c \in 768..879

\* variant: the name as written, accents kept
remover_acentos_noop(texto) == texto

remover_acentos(texto) ==
    LET nfkd_form == Flatten([i \in DOMAIN texto |-> Decompose(texto[i])])
    IN  SelectSeq(nfkd_form, LAMBDA c : ~Combining(c))

\* col.str.normalize('NFKD').str.encode('ascii', errors='ignore').str.decode('utf-8')
AsciiKey(texto) ==
    LET nfkd_form == Flatten([i \in DOMAIN texto |-> Decompose(texto[i])])
    IN  SelectSeq(nfkd_form, LAMBDA c : c < 128)

\* a stable sort (sorted(), and sort_values on several columns), given
\* less[j][i]: element j is less than element i. An element goes after
\* those that are less and after the equal ones that precede it.
StableSort(seq, less) ==
    LET n == Len(seq)
        Before(j, i) == less[j][i] \/ (~less[i][j] /\ j < i)
        Pos(i) == Cardinality({j \in 1..n : Before(j, i)}) + 1
    IN  [p \in 1..n |-> seq[CHOOSE i \in 1..n : Pos(i) = p]]

\* the names of a column compared by a key: less[j][i] of StableSort
LessByKey(keys) == [j \in DOMAIN keys |-> [i \in DOMAIN keys |-> StrLess(keys[j], keys[i])]]

\* ------------------------------------------------------- reference data
Fabio == <<70, 97, 98, 105, 111>>
Eder  == <<201, 100, 101, 114>>
Ana   == <<65, 110, 97>>
Zeca  == <<90, 101, 99, 97>>
T5A == <<53, 65>>
T5B == <<53, 66>>
\* st.session_state['disciplinas']
DisciplinaList == <<"Mat", "Port">>
Disciplinas == {DisciplinaList[i] : i \in DOMAIN DisciplinaList}
Turmas == {T5A, T5B}
Sessions == 1..NumSessions

Aluno(nome, turma) == [Aluno |-> nome, Turma |-> turma]

VARIABLES
    store,      \* the rows of the "Notas" worksheet, in order; Nota is cell text
    cache,      \* st.cache_data's entry for load_notas(), shared by all sessions
    sess,       \* per session: st.session_state['notas_df_geral'], once loaded
    alunos_df,  \* st.session_state['alunos_df']: the roster
    clock,      \* what datetime.now() returns next
    out         \* the last script run: its inputs and what it showed the user

vars == <<store, cache, sess, alunos_df, clock, out>>

Row(tri, disc, turma, aluno, nota, ts) ==
    [Trimestre |-> tri, Disciplina |-> disc, Turma |-> turma, Aluno |-> aluno,
     Nota |-> nota, Timestamp |-> ts]

\* ------------------------------------------------------ worksheet I/O
\* load_notas: every Nota becomes text, ',' becomes '.', and to_numeric
\* coerces what is not a number to NaN
LoadNota(cell) ==
    LET p == ParseFloat(ReplaceComma(cell))
    IN  IF p.ok /\ ~p.nan THEN <<p.val>> ELSE NaN

LoadNotas(sheet) == [i \in DOMAIN sheet |-> [sheet[i] EXCEPT !.Nota = LoadNota(@)]]

\* set_with_dataframe: a float is written as its number, NaN as an empty cell
SheetNota(x) == IF IsNaN(x) THEN << >> ELSE FloatText(x[1])

ToSheet(df) == [i \in DOMAIN df |-> [df[i] EXCEPT !.Nota = SheetNota(@)]]

\* save_notas: ws_notas.clear(), then set_with_dataframe; an exception of
\* either call is caught and reported with st.error
WriteFaults == {"none", "clear", "set"}

save_notas(df_final, fault) ==
    CASE fault = "none"  -> ToSheet(df_final)
      [] fault = "clear" -> store
      [] fault = "set"   -> << >>

\* ------------------------------------------------------------ selection
InTuple(r, tri, disc, turma) ==
    r.Trimestre = tri /\ r.Disciplina = disc /\ r.Turma = turma

Matching(df, tri, disc, turma) == SelectSeq(df, LAMBDA r : InTuple(r, tri, disc, turma))
NotMatching(df, tri, disc, turma) == SelectSeq(df, LAMBDA r : ~InTuple(r, tri, disc, turma))

\* ------------------------------------------------------------ the editor
\* alunos_turma_df: the students of the class, sorted by the ASCII of the name
alunos_turma(roster, turma) ==
    LET names == [i \in DOMAIN SelectSeq(roster, LAMBDA a : a.Turma = turma) |->
                    SelectSeq(roster, LAMBDA a : a.Turma = turma)[i].Aluno]
    IN  StableSort(names, LessByKey([i \in DOMAIN names |-> AsciiKey(names[i])]))

\* pd.merge(alunos_turma_df, notas_atuais, on="Aluno", how="left"), then
\* Nota.astype(str): one row per stored row of the student, or one "nan" row
df_para_editar(df, roster, tri, disc, turma) ==
    LET left  == alunos_turma(roster, turma)
        right == Matching(df, tri, disc, turma)
        rowsOf(a) ==
            LET m == SelectSeq(right, LAMBDA r : r.Aluno = a)
            IN  IF m = << >> THEN <<[Aluno |-> a, Nota |-> PyStr(NaN)]>>
                ELSE [j \in DOMAIN m |-> [Aluno |-> a, Nota |-> PyStr(m[j].Nota)]]
    IN  Flatten([i \in DOMAIN left |-> rowsOf(left[i])])

\* what a user types into a cell (None: the cell is emptied)
Cells ==
    { None, <<"8", ",", "5">>, <<"7">>, <<"0">>, <<"1", "0">>, <<"1", "0", ",", "5">>,
      <<"1", "1">>, <<"-", "1">>, <<"a", "b">> }

\* the edited tables: each cell is left as shown or typed over
EditedTables(shown, cells) ==
    LET all == cells \cup {shown[i].Nota : i \in DOMAIN shown}
    IN  { [i \in DOMAIN shown |-> [Aluno |-> shown[i].Aluno, Nota |-> g[i]]] :
            g \in { h \in [DOMAIN shown -> all] :
                      \A i \in DOMAIN shown : h[i] \in cells \cup {shown[i].Nota} } }

\* variant: no range test
InRange_open(nota_final) == TRUE

\* 0.0 <= nota_final <= 10.0
InRange(nota_final) == 0 <= nota_final /\ nota_final <= 100

\* the validation of one edited row: "save", or the warning it gets
Verdict(cell) ==
    LET p == ParseFloat(ReplaceComma(cell))
    IN  IF ~p.ok THEN "invalid"
        ELSE IF ~p.nan /\ InRange(p.val) THEN "save"
        ELSE "range"

\* rows_to_save: the rows that pass, stamped, in the order of the editor
rows_to_save(edited, tri, disc, turma, now) ==
    LET inseridas == SelectSeq(edited, LAMBDA r : r.Nota # None)
        good == SelectSeq(inseridas, LAMBDA r : Verdict(r.Nota) = "save")
    IN  [i \in DOMAIN good |->
            Row(tri, disc, turma, good[i].Aluno,
                <<ParseFloat(ReplaceComma(good[i].Nota)).val>>, now)]

\* the st.warning calls of the loop
Warnings(edited) ==
    { [Aluno |-> edited[i].Aluno, why |-> Verdict(edited[i].Nota)] :
        i \in {j \in DOMAIN edited : edited[j].Nota # None /\ Verdict(edited[j].Nota) # "save"} }

\* variant: the save is not guarded
SaveAlways(rows) == TRUE

\* if rows_to_save:
HasRows(rows) == rows # << >>


\* ------------------------------------------------------------ averages
RECURSIVE SumSeq(_)
SumSeq(xs) == IF xs = << >> THEN 0 ELSE Head(xs) + SumSeq(Tail(xs))

\* round(total / n, 1) in tenths. Python rounds a float correctly, and a tie
\* goes to the even digit; the quotient of a sum of half points by fewer
\* than ten subjects is a tie only at .25 and .75, which binary floats hold
\* exactly
Round1(total, n) ==
    LET q == total \div n
        r == total % n
    IN  IF 2 * r < n THEN q
        ELSE IF 2 * r > n THEN q + 1
        ELSE IF q % 2 = 0 THEN q ELSE q + 1

\* df.sort_values('Timestamp') with the default quicksort: rows of equal
\* Timestamp come in an order pandas does not fix. An order is a
\* permutation of the row numbers with the timestamps ascending.
SortOrders(df) ==
    { p \in Permutations(DOMAIN df) :
        \A i, j \in DOMAIN df : i < j => df[p[i]].Timestamp <= df[p[j]].Timestamp }

\* GroupBy.last(): the last value of the group that is not NaN, NaN if none
LastValid(g) ==
    LET v == SelectSeq(g, LAMBDA r : ~IsNaN(r.Nota))
    IN  IF v = << >> THEN NaN ELSE v[Len(v)].Nota

\* variant: an empty list averages to 0
AverageZero(notas) ==
    IF notas = << >> THEN [Media |-> <<0>>, Lancamentos |-> 0]
    ELSE [Media |-> <<Round1(SumSeq(notas), Len(notas))>>, Lancamentos |-> Len(notas)]

\* if notas: round(sum(notas) / len(notas), 1) and len(notas); else None and 0
Average(notas) ==
    IF notas = << >> THEN [Media |-> NaN, Lancamentos |-> 0]
    ELSE [Media |-> <<Round1(SumSeq(notas), Len(notas))>>, Lancamentos |-> Len(notas)]

\* one row of a report: the student's entries of the term (none: None and
\* 0), sorted by Timestamp, the last Nota of each Disciplina, NaN dropped
StudentRow(df, order, aluno, tri, turma) ==
    LET sorted == [i \in DOMAIN df |-> df[order[i]]]
        df_al  == SelectSeq(sorted, LAMBDA r : r.Aluno = aluno /\ r.Trimestre = tri)
        groups == SelectSeq(DisciplinaList,
                            LAMBDA d : \E i \in DOMAIN df_al : df_al[i].Disciplina = d)
        latest == [k \in DOMAIN groups |->
                      LastValid(SelectSeq(df_al, LAMBDA r : r.Disciplina = groups[k]))]
        kept   == SelectSeq(latest, LAMBDA x : ~IsNaN(x))
        notas  == [k \in DOMAIN kept |-> kept[k][1]]
        avg    == IF df_al = << >> THEN [Media |-> NaN, Lancamentos |-> 0]
                  ELSE Average(notas)
    IN  [Trimestre |-> tri, Turma |-> turma, Aluno |-> aluno,
         Media |-> avg.Media, Lancamentos |-> avg.Lancamentos]

\* "Relatório (esta turma)": the students of the class, sorted(key=remover_acentos)
ClassReportRows(df, order, roster, tri, turma) ==
    LET inClass == SelectSeq(roster, LAMBDA a : a.Turma = turma)
        alunos_list == [i \in DOMAIN inClass |-> inClass[i].Aluno]
        ordered == StableSort(alunos_list,
                      LessByKey([i \in DOMAIN alunos_list |-> remover_acentos(alunos_list[i])]))
    IN  [i \in DOMAIN ordered |-> StudentRow(df, order, ordered[i], tri, turma)]

\* df_result.sort_values(by=["Turma", "Aluno_sort"])
ResultLess(a, b) ==
    \/ StrLess(a.Turma, b.Turma)
    \/ a.Turma = b.Turma /\ StrLess(remover_acentos(a.Aluno), remover_acentos(b.Aluno))

\* "Relatório (geral do tri)": one row per row of the roster, then sorted
SchoolReportRows(df, order, roster, tri) ==
    LET resultados == [i \in DOMAIN roster |->
                          StudentRow(df, order, roster[i].Aluno, tri, roster[i].Turma)]
    IN  StableSort(resultados,
                   [j \in DOMAIN resultados |-> [i \in DOMAIN resultados |->
                       ResultLess(resultados[j], resultados[i])]])


\* ------------------------------------------------------------ script runs
NoOut ==
    [kind |-> "none", s |-> 0, tri |-> 0, disc |-> "", turma |-> << >>,
     edited |-> << >>, warnings |-> {}, error |-> FALSE, success |-> FALSE,
     nsaved |-> 0, report |-> << >>]

\* the clock's first reading, later than every timestamp of the worksheets
\* a run starts from; no form run starts at the horizon or after it
FirstTime == 6
Horizon == FirstTime + MaxRuns

NoCache == [valid |-> FALSE, df |-> << >>]

\* the first run of a session: notas_df_geral is not in st.session_state,
\* so load_notas() is called. A cached result is returned as it is;
\* otherwise the worksheet is read (or, the read failing, an empty table is
\* returned after st.error) and the result is cached.
Start(s, readFails) ==
    /\ ~sess[s].loaded
    /\ LET hit == cache.valid
           df  == IF hit THEN cache.df
                  ELSE IF readFails THEN << >> ELSE LoadNotas(store)
       IN  /\ sess' = [sess EXCEPT ![s] = [loaded |-> TRUE, df |-> df]]
           /\ cache' = [valid |-> TRUE, df |-> df]
           /\ out' = [NoOut EXCEPT !.kind = "start", !.s = s,
                                   !.error = ~hit /\ readFails]
    /\ UNCHANGED <<store, alunos_df, clock>>

\* @st.cache_data(ttl=30): the cached table expires
CacheExpire ==
    /\ cache.valid
    /\ cache' = NoCache
    /\ UNCHANGED <<store, sess, alunos_df, clock, out>>

\* "Salvar lançamentos" with the edited table: the validation loop, then,
\* if a row passed, the worksheet is rewritten from the session's table.
\* The rows of one run carry the clock's reading, and the run takes a tick
\* whether or not it saves.
Submit(s, tri, disc, turma, edited, fault) ==
    /\ sess[s].loaded
    /\ clock < Horizon
    /\ clock' = clock + 1
    /\ LET rows == rows_to_save(edited, tri, disc, turma, clock)
           df_mantido == NotMatching(sess[s].df, tri, disc, turma)
           df_final == df_mantido \o rows
           shown == [NoOut EXCEPT !.kind = "submit", !.s = s, !.tri = tri,
                                  !.disc = disc, !.turma = turma, !.edited = edited,
                                  !.warnings = Warnings(edited)]
       IN  IF HasRows(rows)
           THEN /\ store' = save_notas(df_final, fault)
                /\ sess' = [sess EXCEPT ![s].df = df_final]
                /\ cache' = NoCache
                /\ out' = [shown EXCEPT !.error = fault # "none", !.success = TRUE,
                                        !.nsaved = Len(rows)]
           ELSE /\ fault = "none"
                /\ out' = shown
                /\ UNCHANGED <<store, sess, cache>>
    /\ UNCHANGED alunos_df

\* "Confirmar Exclusão", shown once the password is "qualitativa"
Delete(s, tri, disc, turma, password, fault) ==
    /\ sess[s].loaded
    /\ password = "qualitativa"
    /\ clock < Horizon
    /\ LET df_final == NotMatching(sess[s].df, tri, disc, turma)
       IN  /\ store' = save_notas(df_final, fault)
           /\ sess' = [sess EXCEPT ![s].df = df_final]
    /\ cache' = NoCache
    /\ clock' = clock + 1
    /\ out' = [NoOut EXCEPT !.kind = "delete", !.s = s, !.tri = tri, !.disc = disc,
                            !.turma = turma, !.error = fault # "none", !.success = TRUE]
    /\ UNCHANGED alunos_df

\* "Relatório (esta turma)"
ClassReport(s, tri, turma) ==
    /\ sess[s].loaded
    /\ \E order \in SortOrders(sess[s].df) :
          out' = [NoOut EXCEPT !.kind = "class", !.s = s, !.tri = tri, !.turma = turma,
                     !.report = ClassReportRows(sess[s].df, order, alunos_df, tri, turma)]
    /\ UNCHANGED <<store, cache, sess, alunos_df, clock>>

\* "Relatório (geral do tri)"
SchoolReport(s, tri) ==
    /\ sess[s].loaded
    /\ \E order \in SortOrders(sess[s].df) :
          out' = [NoOut EXCEPT !.kind = "school", !.s = s, !.tri = tri,
                     !.report = SchoolReportRows(sess[s].df, order, alunos_df, tri)]
    /\ UNCHANGED <<store, cache, sess, alunos_df, clock>>


\* ------------------------------------------------------------ specifications
\* worksheets a run may start from: a grade typed with a decimal comma, a
\* cell that is no number, and rows of three tuples
SheetRow1 == Row(1, "Mat", T5A, Fabio, <<"7">>, 1)
SheetRow2 == Row(1, "Port", T5A, Fabio, <<"a", "b">>, 2)
SheetRow3 == Row(1, "Mat", T5B, Ana, <<"8", ",", "5">>, 1)
Sheets == { << >>, <<SheetRow1>>, <<SheetRow1, SheetRow2>>,
            <<SheetRow1, SheetRow2, SheetRow3>> }

\* the "Alunos" worksheet, in the order of its rows
Roster == <<Aluno(Zeca, T5B), Aluno(Fabio, T5A), Aluno(Eder, T5A), Aluno(Ana, T5B)>>

Init ==
    /\ store \in Sheets
    /\ cache = NoCache
    /\ sess = [s \in Sessions |-> [loaded |-> FALSE, df |-> << >>]]
    /\ alunos_df = Roster
    /\ clock = FirstTime
    /\ out = NoOut

\* the script runs that write, for the sessions `ss`: the user selects a
\* term of `tris` and types cells of `cells`; the worksheet fails as
\* `faults` (writes) and `readFaults` (reads) say
Runs(ss, tris, cells, faults, readFaults) ==
    \/ \E s \in ss, readFails \in readFaults : Start(s, readFails)
    \/ CacheExpire
    \/ \E s \in ss, tri \in tris, disc \in Disciplinas, turma \in Turmas, fault \in faults :
          \E edited \in EditedTables(df_para_editar(sess[s].df, alunos_df, tri, disc, turma),
                                     cells) :
             Submit(s, tri, disc, turma, edited, fault)
    \/ \E s \in ss, tri \in tris, disc \in Disciplinas, turma \in Turmas, fault \in faults :
          Delete(s, tri, disc, turma, "qualitativa", fault)

\* Spec: the sessions interleave over a worksheet that does not fail
Next == Runs(Sessions, FormTrimestres, {<<"8", ",", "5">>}, {"none"}, {FALSE})

Spec == Init /\ [][Next]_vars

\* SpecForm: one session and one form run (the clock starts one tick before
\* the horizon), with every text the validation tells apart and every way
\* the worksheet fails
InitForm ==
    /\ store \in Sheets
    /\ cache = NoCache
    /\ sess = [s \in Sessions |-> [loaded |-> FALSE, df |-> << >>]]
    /\ alunos_df = Roster
    /\ clock = Horizon - 1
    /\ out = NoOut

NextForm == Runs({1}, FormTrimestres, Cells, WriteFaults, BOOLEAN)

SpecForm == InitForm /\ [][NextForm]_vars

\* SpecRel: one session loads a worksheet and asks for the reports
PoolRows ==
    { Row(1, "Mat", T5A, Fabio, <<"5">>, 1),
      Row(1, "Mat", T5A, Fabio, <<"8">>, 2),
      Row(1, "Mat", T5A, Fabio, <<"6">>, 2),
      Row(1, "Mat", T5A, Fabio, <<"a", "b">>, 3),
      Row(1, "Port", T5A, Fabio, <<"8", ",", "5">>, 4),
      Row(2, "Mat", T5A, Eder, <<"1", "0">>, 5) }

RelSheets == UNION { [1..n -> PoolRows] : n \in 0..MaxSheetRows }

InitRel ==
    /\ store \in RelSheets
    /\ cache = NoCache
    /\ sess = [s \in Sessions |-> [loaded |-> FALSE, df |-> << >>]]
    /\ alunos_df = Roster
    /\ clock = FirstTime
    /\ out = NoOut

NextRel ==
    \/ \E s \in {1} : Start(s, FALSE)
    \/ \E s \in {1}, tri \in ReportTrimestres, turma \in Turmas : ClassReport(s, tri, turma)
    \/ \E s \in {1}, tri \in ReportTrimestres : SchoolReport(s, tri)

SpecRel == InitRel /\ [][NextRel]_vars

\* ================================================================ claims
IsWrite(o) == o.kind \in {"submit", "delete"} /\ o.success

\* the worksheet as numbers, so that "8,5" and "8.5" are the same grade
Values(sheet) == LoadNotas(sheet)

\* C1: a save of a batch for the tuple T leaves the worksheet holding
\* exactly the new batch for T, and every entry of every other tuple as it
\* was before the save.
C1_SaveReplacesTupleOnly ==
    [][ (out'.kind = "submit" /\ out'.success /\ ~out'.error) =>
          /\ Matching(Values(store'), out'.tri, out'.disc, out'.turma)
               = rows_to_save(out'.edited, out'.tri, out'.disc, out'.turma, clock)
          /\ NotMatching(Values(store'), out'.tri, out'.disc, out'.turma)
               = NotMatching(Values(store), out'.tri, out'.disc, out'.turma) ]_vars

\* C2: a confirmed delete of the tuple T leaves no entry of T in the
\* worksheet, and every entry of every other tuple as it was before.
C2_DeleteRemovesTupleOnly ==
    [][ (out'.kind = "delete" /\ out'.success /\ ~out'.error) =>
          /\ Matching(store', out'.tri, out'.disc, out'.turma) = << >>
          /\ NotMatching(Values(store'), out'.tri, out'.disc, out'.turma)
               = NotMatching(Values(store), out'.tri, out'.disc, out'.turma) ]_vars

\* C7: writes are last-writer-wins per tuple: a save or a delete of T by one
\* session never removes an entry that a session's save stored for another
\* tuple (the rows stamped by the clock are the ones sessions stored).
C7_OtherTuplesSurviveAWrite ==
    [][ IsWrite(out') =>
          \A i \in DOMAIN store :
             (store[i].Timestamp >= FirstTime
                /\ ~InTuple(store[i], out'.tri, out'.disc, out'.turma))
             => \E j \in DOMAIN store' : store'[j] = store[i] ]_vars

\* C9: a write that failed is reported and ends the action: the run does
\* not go on to report success.
C9_NoSuccessAfterFailedWrite ==
    (out.kind \in {"submit", "delete"} /\ out.error) => ~out.success

\* what the validation rule says of each text the model types or shows:
\* the grade in tenths of an accepted text, and the rejected texts
AcceptedTexts ==
    { <<<<"8", ",", "5">>, 85>>, <<<<"8", ".", "5">>, 85>>, <<<<"7">>, 70>>,
      <<<<"7", ".", "0">>, 70>>, <<<<"0">>, 0>>, <<<<"1", "0">>, 100>> }
RejectedTexts ==
    { <<"1", "0", ",", "5">>, <<"1", "1">>, <<"-", "1">>, <<"a", "b">>, <<"n", "a", "n">> }
IsAccepted(txt) == \E p \in AcceptedTexts : p[1] = txt
GradeOf(txt) == (CHOOSE p \in AcceptedTexts : p[1] = txt)[2]

\* the (student, grade) pairs of the rows of a table, in order
Grades(df) == [i \in DOMAIN df |-> <<df[i].Aluno, df[i].Nota>>]

\* the (student, grade) pairs the rule accepts of an edited table, in order
AcceptedOf(edited) ==
    LET ok == SelectSeq(edited, LAMBDA r : IsAccepted(r.Nota))
    IN  [i \in DOMAIN ok |-> <<ok[i].Aluno, <<GradeOf(ok[i].Nota)>> >>]

\* C6: on submit a score is kept if and only if, a decimal comma read as a
\* point, it is a number within [0, 10]: "8,5" is kept as 8.5; "11", "-1"
\* and text that is no number are not. A rejected entry is reported with
\* the student's name, and the accepted entries of the same batch are kept
\* all the same: the worksheet not failing, they are the entries of the
\* tuple in the worksheet and in the session's table.
C6_SavedIffValid ==
    out.kind = "submit" =>
      LET E == out.edited
          acc == AcceptedOf(E)
      IN  /\ \A i \in DOMAIN E :
                E[i].Nota = None \/ IsAccepted(E[i].Nota) \/ E[i].Nota \in RejectedTexts
          /\ {w.Aluno : w \in out.warnings}
               = {E[i].Aluno : i \in {j \in DOMAIN E : E[j].Nota \in RejectedTexts}}
          /\ acc = << >> => ~out.success
          /\ (acc # << >> /\ ~out.error) =>
               /\ out.success /\ out.nsaved = Len(acc)
               /\ Grades(Matching(sess[out.s].df, out.tri, out.disc, out.turma)) = acc
               /\ Grades(Matching(Values(store), out.tri, out.disc, out.turma)) = acc

\* C6's case: "8,5" and a rejected text in one batch, and the worksheet
\* holding 8.5 for the student after the write
C6_Witness ==
    /\ out.kind = "submit" /\ out.success /\ ~out.error /\ out.warnings # {}
    /\ \E i \in DOMAIN out.edited : out.edited[i].Nota = <<"8", ",", "5">>
    /\ \E i \in DOMAIN out.edited : out.edited[i].Nota = <<"1", "1">>
    /\ \E j \in DOMAIN store :
          /\ InTuple(store[j], out.tri, out.disc, out.turma)
          /\ store[j].Nota = <<"8", ".", "5">>

\* C10: a submit in which no entry passes the validation changes neither
\* the worksheet nor the session's grade table.
C10_NothingValidNothingChanges ==
    [][ (out'.kind = "submit"
           /\ \A i \in DOMAIN out'.edited :
                 out'.edited[i].Nota = None \/ out'.edited[i].Nota \in RejectedTexts)
        => (store' = store /\ sess' = sess) ]_vars

\* C10's case: every entry of a submit was rejected or empty, one of them
\* with a warning, and the entries stored for the tuple are still there
C10_Witness ==
    /\ out.kind = "submit" /\ out.warnings # {}
    /\ \A i \in DOMAIN out.edited :
          out.edited[i].Nota = None \/ out.edited[i].Nota \in RejectedTexts
    /\ Matching(store, out.tri, out.disc, out.turma) # << >>
    /\ Matching(sess[out.s].df, out.tri, out.disc, out.turma) # << >>


\* ------------------------------------------------------------ the reports
IsReport(o) == o.kind \in {"class", "school"}

\* the entries of a student and a term in the table the report was made of
EntriesOf(aluno, tri) ==
    {r \in RowSet(sess[out.s].df) : r.Aluno = aluno /\ r.Trimestre = tri}

SubjectsOf(aluno, tri) == {r.Disciplina : r \in EntriesOf(aluno, tri)}

\* the entries of a subject with the maximum timestamp
LatestOf(aluno, tri, d) ==
    {r \in EntriesOf(aluno, tri) :
        /\ r.Disciplina = d
        /\ \A q \in EntriesOf(aluno, tri) :
              q.Disciplina = d => q.Timestamp <= r.Timestamp}

RECURSIVE SumOver(_, _)
SumOver(S, pick) ==
    IF S = {} THEN 0
    ELSE LET d == CHOOSE x \in S : TRUE IN pick[d].Nota[1] + SumOver(S \ {d}, pick)

\* the mean of a sum over n subjects, to one decimal, in tenths: the
\* multiple of a tenth nearest to total / n, the even one of two
IsMeanTo1(m, total, n) ==
    /\ 2 * (m * n - total) <= n
    /\ 2 * (total - m * n) <= n
    /\ (2 * (m * n - total) = n \/ 2 * (total - m * n) = n) => m % 2 = 0

\* C3: the reported average of a student is the arithmetic mean (shown to
\* one decimal) of one score per subject, the score of the entry with the
\* maximum timestamp among the student's entries of the subject and term,
\* and the count is the number of those subjects (those whose score is a
\* number).
C3_MeanOfLatestPerSubject ==
    IsReport(out) =>
      \A k \in DOMAIN out.report :
         LET row == out.report[k]
             subjects == SubjectsOf(row.Aluno, out.tri)
         IN  \E pick \in [subjects -> EntriesOf(row.Aluno, out.tri)] :
                /\ \A d \in subjects : pick[d] \in LatestOf(row.Aluno, out.tri, d)
                /\ LET numeric == {d \in subjects : ~IsNaN(pick[d].Nota)}
                   IN  /\ row.Lancamentos = Cardinality(numeric)
                       /\ IF numeric = {} THEN IsNaN(row.Media)
                          ELSE /\ ~IsNaN(row.Media)
                               /\ IsMeanTo1(row.Media[1], SumOver(numeric, pick),
                                            Cardinality(numeric))

\* C4: a subject whose latest entry has a score that is no number adds
\* nothing to the average: it is not counted, and no earlier entry of the
\* subject is used in its place.
C4_NonNumericLatestIsDropped ==
    IsReport(out) =>
      \A k \in DOMAIN out.report :
         LET row == out.report[k]
             subjects == SubjectsOf(row.Aluno, out.tri)
             dropped == {d \in subjects :
                           \A r \in LatestOf(row.Aluno, out.tri, d) : IsNaN(r.Nota)}
         IN  /\ row.Lancamentos <= Cardinality(subjects \ dropped)
             /\ subjects = dropped => IsNaN(row.Media)

\* the students a report is about: the class's, or the whole roster
InScope(a) == out.kind = "school" \/ a.Turma = out.turma

Stripped(nome) == IF nome = Eder THEN <<69, 100, 101, 114>> ELSE nome

\* C8: the school report has one row per roster student, of every class,
\* ordered by class and, within a class, by the name without diacritics;
\* the names in the rows are the original names.
C8_SchoolReportOrder ==
    out.kind = "school" =>
      LET rep == out.report
      IN  /\ Len(rep) = Len(alunos_df)
          /\ \A i \in DOMAIN alunos_df :
                Cardinality({k \in DOMAIN rep : rep[k].Aluno = alunos_df[i].Aluno
                                                /\ rep[k].Turma = alunos_df[i].Turma})
                  = Cardinality({j \in DOMAIN alunos_df : alunos_df[j] = alunos_df[i]})
          /\ \A k \in DOMAIN rep : rep[k].Trimestre = out.tri
          /\ \A j, k \in DOMAIN rep :
                j < k =>
                   \/ StrLess(rep[j].Turma, rep[k].Turma)
                   \/ /\ rep[j].Turma = rep[k].Turma
                      /\ ~StrLess(Stripped(rep[k].Aluno), Stripped(rep[j].Aluno))

\* C8's case: a school report in which Éder, the accent kept, is before
\* Fabio in class 5A, and class 5A is before class 5B
C8_Witness ==
    /\ out.kind = "school"
    /\ [k \in DOMAIN out.report |-> out.report[k].Aluno] = <<Eder, Fabio, Ana, Zeca>>
    /\ [k \in DOMAIN out.report |-> out.report[k].Turma] = <<T5A, T5A, T5B, T5B>>

====
